---- MODULE Spec2Model ----
(***************************************************************************)
(* Model of src/src/utils/xyzCleanup.js: the animation-completion          *)
(* coordinator (getAnimMeta, bindCleanup, markDone, removeParentClass,     *)
(* xyzCleanup and the page-load wiring).                                   *)
(*                                                                         *)
(* The DOM is a small forest of elements.  Each element carries the        *)
(* classes 'xyz-in' / 'xyz-nested', the data-xyz-cleanup-bound attribute   *)
(* and a computed animation style.  The closure state of one bindCleanup   *)
(* call is kept per root element (remaining, timers, perElMeta, ended,     *)
(* startTime).  The browser is modelled by its table of live timeouts,     *)
(* the listener list of every element and a millisecond clock.             *)
(***************************************************************************)
EXTENDS Integers, Sequences, FiniteSets, TLC

----------------------------------------------------------------------------
(* Bounds of the model.                                                    *)

\* number of animationend events delivered
MaxEvents == 3

\* the safety margin of the fallback timer, in ms
Margin == 50

----------------------------------------------------------------------------
(* Strings are sequences of one-character strings, so that trim, endsWith  *)
(* and parseFloat are computed.                                            *)

Digits == <<"0", "1", "2", "3", "4", "5", "6", "7", "8", "9">>

IsDigit(c) == \E i \in 1..10 : Digits[i] = c

DigitVal(c) == (CHOOSE i \in 1..10 : Digits[i] = c) - 1

RECURSIVE TrimLeft(_)
TrimLeft(s) == IF s # <<>> /\ Head(s) = " " THEN TrimLeft(Tail(s)) ELSE s

RECURSIVE TrimRight(_)
TrimRight(s) ==
    IF s # <<>> /\ s[Len(s)] = " " THEN TrimRight(SubSeq(s, 1, Len(s) - 1)) ELSE s

\* String.prototype.trim
Trim(s) == TrimRight(TrimLeft(s))

\* String.prototype.endsWith
EndsWith(s, suffix) ==
    /\ Len(s) >= Len(suffix)
    /\ SubSeq(s, Len(s) - Len(suffix) + 1, Len(s)) = suffix

RECURSIVE DigitRun(_)
\* the longest prefix of s made of digits
DigitRun(s) == IF s # <<>> /\ IsDigit(Head(s)) THEN <<Head(s)>> \o DigitRun(Tail(s)) ELSE <<>>

RECURSIVE DigitsToInt(_)
DigitsToInt(ds) ==
    IF ds = <<>> THEN 0 ELSE DigitsToInt(SubSeq(ds, 1, Len(ds) - 1)) * 10 + DigitVal(ds[Len(ds)])

RECURSIVE Pow10(_)
Pow10(n) == IF n = 0 THEN 1 ELSE 10 * Pow10(n - 1)

\* the number with integer digits ip and fraction digits fp, as num / den
Decimal(neg, ip, fp) ==
    IF ip = <<>> /\ fp = <<>>
    THEN [nan |-> TRUE, num |-> 0, den |-> 1]
    ELSE [nan |-> FALSE,
          num |-> IF neg THEN 0 - DigitsToInt(ip \o fp) ELSE DigitsToInt(ip \o fp),
          den |-> Pow10(Len(fp))]

\* the digits after a '.' at the head of rest
Fraction(rest) == IF rest # <<>> /\ Head(rest) = "." THEN DigitRun(Tail(rest)) ELSE <<>>

ParseDigits(neg, body, ip) ==
    Decimal(neg, ip, Fraction(SubSeq(body, Len(ip) + 1, Len(body))))

ParseSigned(s) ==
    IF s # <<>> /\ Head(s) \in {"-", "+"}
    THEN ParseDigits(Head(s) = "-", Tail(s), DigitRun(Tail(s)))
    ELSE ParseDigits(FALSE, s, DigitRun(s))

\* parseFloat: leading blanks, an optional sign, digits, an optional '.' and
\* digits; what follows the number is ignored.  The result is the rational
\* num / den, or NaN when the string starts with no number.
ParseFloat(str) == ParseSigned(TrimLeft(str))

\* (f || 0) * k for a parsed number f.  The styles of the model hold tokens
\* whose value in ms is a whole number.
OrZeroTimes(f, k) == IF f.nan THEN 0 ELSE (f.num * k) \div f.den

\* lines 4-6 of toMs without the test of line 5: every token is read as seconds
MsOfTrimmedSeconds(s) ==
    IF s = <<>> THEN 0 ELSE OrZeroTimes(ParseFloat(s), 1000)

\* lines 4-6 of toMs, s the trimmed string
MsOfTrimmed(s) ==
    IF s = <<>> THEN 0
    ELSE IF EndsWith(s, <<"m", "s">>) THEN OrZeroTimes(ParseFloat(s), 1)
    ELSE OrZeroTimes(ParseFloat(s), 1000)

\* toMs(v): milliseconds of a time token; v = <<>> stands for '' and undefined
toMs(v) == MsOfTrimmed(Trim(v))

Max(a, b) == IF a >= b THEN a ELSE b

----------------------------------------------------------------------------
(* Computed styles: the lists cs.animationName / animationDuration /       *)
(* animationDelay after split(','), each item a list of characters.        *)

\* the name 'none'
None == <<"n", "o", "n", "e">>

StyleNone ==
    [names |-> <<None>>, durations |-> << <<"0", "s">> >>, delays |-> << <<"0", "s">> >>]

\* one animation of 200ms
StyleOne ==
    [names     |-> << <<"x", "y", "z">> >>,
     durations |-> << <<"0", ".", "2", "s">> >>,
     delays    |-> << <<"0", "s">> >>]

\* two animations of 100ms and 300ms; the delay list is shorter than the names
StyleTwo ==
    [names     |-> << <<"f", "a", "d", "e">>, <<" ", "s", "l", "i", "d", "e">> >>,
     durations |-> << <<"0", ".", "1", "s">>, <<" ", "0", ".", "3", "s">> >>,
     delays    |-> << <<"0", "s">> >>]

Styles == {StyleNone, StyleOne, StyleTwo}

\* one animation of 200ms with a delay of -200ms: it is at its end when it starts
StyleEarly ==
    [names     |-> << <<"p", "o", "p">> >>,
     durations |-> << <<"0", ".", "2", "s">> >>,
     delays    |-> << <<"-", "0", ".", "2", "s">> >>]

\* the style of an element for which getComputedStyle throws: no list to read
Unreadable == [names |-> <<>>, durations |-> <<>>, delays |-> <<>>]

\* the styles with the two unusual ones
WideStyles == Styles \cup {StyleEarly, Unreadable}

\* list[i] || 0 after map(toMs): 0 where the list has no position i
MsAt(list, i) == IF i <= Len(list) THEN toMs(list[i]) ELSE 0

\* names.map((n, i) => ({name, duration, delay})) (line 17)
AnimEntries(cs) ==
    [i \in 1..Len(cs.names) |->
        [name     |-> Trim(cs.names[i]),
         duration |-> MsAt(cs.durations, i),
         delay    |-> MsAt(cs.delays, i)]]

\* the filter of line 18 without the test of the duration
IsActiveAnyDuration(a) == a.name # <<>> /\ a.name # None

\* the filter of line 18
IsActive(a) == a.name # <<>> /\ a.name # None /\ a.duration > 0

RECURSIVE MaxEnd(_)
\* active.reduce((acc, a) => Math.max(acc, a.duration + a.delay), 0)
MaxEnd(active) ==
    IF active = <<>> THEN 0
    ELSE Max(MaxEnd(SubSeq(active, 1, Len(active) - 1)),
             active[Len(active)].duration + active[Len(active)].delay)

\* lines 19-21
MetaOf(active) == [expectedCount |-> Len(active), maxMs |-> MaxEnd(active)]

\* getAnimMeta whose catch block reports one animation of 1000ms
getAnimMetaFailClosed(cs) ==
    IF cs = Unreadable THEN [expectedCount |-> 1, maxMs |-> 1000]
    ELSE MetaOf(SelectSeq(AnimEntries(cs), IsActive))

\* getAnimMeta(el), from the computed style cs of el; the catch block of lines
\* 22-24 when the style cannot be read
getAnimMeta(cs) ==
    IF cs = Unreadable THEN [expectedCount |-> 0, maxMs |-> 0]
    ELSE MetaOf(SelectSeq(AnimEntries(cs), IsActive))

----------------------------------------------------------------------------
(* The document.  Element 0 is the document itself; the elements are       *)
(* numbered in document order.                                             *)

Document == 0

Elems == {1, 2}

\* parentOf of every element: element 2 inside element 1, or beside it
Layouts == {<<Document, 1>>, <<Document, Document>>}

VARIABLES
    parentOf,       \* the tree: parentOf[e] is an element or Document
    nestedCls,      \* nestedCls[e]: e carries the class 'xyz-nested'
    style,          \* style[e]: the computed animation style of e
    hasIn,          \* hasIn[e]: e carries the class 'xyz-in'
    bound,          \* bound[e]: e.dataset.xyzCleanupBound === '1'
    listeners,      \* listeners[e]: the roots whose onEnd listens on e, in order
    remaining,      \* per root: the closure variable remaining
    timers,         \* per root: the Map timers, el -> timeout handle
    perElMeta,      \* per root: the Map perElMeta, el -> {expectedCount, maxMs}
    ended,          \* per root: the counter ended of each onEnd closure
    startTime,      \* per root: startTime of the bindCleanup call
    pending,        \* the browser's live timeouts
    now,            \* the clock, in ms
    hasRunInitialCleanup,
    dclListener,    \* the once-listener for DOMContentLoaded is installed
    finalized,      \* per root: how often removeParentClass ran
    seenMarked,     \* per element: a scan met the marker the element carries
    lastRoot,       \* what xyzCleanup was last called with
    anims,          \* per element: its animations, when each ends and what became of it
                    \* with their event delivered ("ended") or dropped ("lost")
    nEvents         \* animationend events delivered so far

vars == <<parentOf, nestedCls, style, hasIn, bound, listeners, remaining, timers,
          perElMeta, ended, startTime, pending, now, hasRunInitialCleanup,
          dclListener, finalized, seenMarked, lastRoot, anims, nEvents>>

pageVars == <<parentOf, nestedCls, style>>

\* the function f without the key k
Without(f, k) == [x \in DOMAIN f \ {k} |-> f[x]]

\* the function f with the key k set to v
With(f, k, v) == [x \in DOMAIN f \cup {k} |-> IF x = k THEN v ELSE f[x]]

Empty == [x \in {} |-> 0]

RECURSIVE Ascending(_)
\* the elements of S in document order
Ascending(S) ==
    IF S = {} THEN <<>>
    ELSE <<CHOOSE x \in S : \A y \in S : x <= y>>
            \o Ascending(S \ {CHOOSE x \in S : \A y \in S : x <= y})

RECURSIVE IsInside(_, _, _)
\* e is a proper descendant of a in the tree p (every element is inside the
\* document)
IsInside(p, e, a) ==
    IF e = Document THEN FALSE
    ELSE p[e] = a \/ IsInside(p, p[e], a)

\* scope.querySelectorAll('.' + cls): the proper descendants of scope that carry
\* the class, in document order
QuerySelectorAll(p, scope, carries) ==
    Ascending({e \in Elems : IsInside(p, e, scope) /\ carries[e]})

RECURSIVE PathUp(_, _)
\* the propagation path of an event: the target, then its ancestors
PathUp(p, e) == IF e = Document THEN <<>> ELSE <<e>> \o PathUp(p, p[e])

----------------------------------------------------------------------------
(* The state the coordinator reads and writes, as one record, so that the  *)
(* calls of one handler compose.                                           *)

World ==
    [parentOf |-> parentOf, nestedCls |-> nestedCls, style |-> style,
     hasIn |-> hasIn, bound |-> bound, listeners |-> listeners,
     remaining |-> remaining, timers |-> timers, perElMeta |-> perElMeta,
     ended |-> ended, startTime |-> startTime, pending |-> pending, now |-> now,
     finalized |-> finalized, seenMarked |-> seenMarked, lastRoot |-> lastRoot]

Commit(w) ==
    /\ hasIn' = w.hasIn
    /\ bound' = w.bound
    /\ listeners' = w.listeners
    /\ remaining' = w.remaining
    /\ timers' = w.timers
    /\ perElMeta' = w.perElMeta
    /\ ended' = w.ended
    /\ startTime' = w.startTime
    /\ pending' = w.pending
    /\ finalized' = w.finalized
    /\ seenMarked' = w.seenMarked
    /\ lastRoot' = w.lastRoot

\* removeParentClass that also clears the bound flag of its root
removeParentClassAndFlag(w, r) ==
    [w EXCEPT !.hasIn[r] = FALSE, !.bound[r] = FALSE, !.finalized[r] = @ + 1]

\* removeParentClass of the closure of root r: parent.classList.remove('xyz-in')
removeParentClass(w, r) ==
    [w EXCEPT !.hasIn[r] = FALSE, !.finalized[r] = @ + 1]

\* line 70 with the test remaining <= 1
FinalizeOneEarly(w, r) == IF w.remaining[r] <= 1 THEN removeParentClass(w, r) ELSE w

\* line 70 with the test remaining < 0
FinalizeLate(w, r) == IF w.remaining[r] < 0 THEN removeParentClass(w, r) ELSE w

\* line 70 followed by clearing the bound flag
FinalizeIfDoneAndUnbind(w, r) ==
    IF w.remaining[r] <= 0
    THEN [removeParentClass(w, r) EXCEPT !.bound[r] = FALSE]
    ELSE w

\* line 70
FinalizeIfDone(w, r) == IF w.remaining[r] <= 0 THEN removeParentClass(w, r) ELSE w

\* markDone without timers.delete(el): the entry stays in the Map
markDoneKeepsEntry(w, r, el) ==
    IF el \notin DOMAIN w.timers[r] THEN w
    ELSE FinalizeIfDone([w EXCEPT !.pending = @ \ {w.timers[r][el]},
                                  !.remaining[r] = @ - 1], r)

\* markDone without clearTimeout: the timeout stays live
markDoneLeavesTimer(w, r, el) ==
    IF el \notin DOMAIN w.timers[r] THEN w
    ELSE FinalizeIfDone([w EXCEPT !.timers[r] = Without(@, el),
                                  !.remaining[r] = @ - 1], r)

\* markDone without the test of line 66
markDoneUnguarded(w, r, el) ==
    FinalizeIfDone([w EXCEPT !.pending = {h \in @ : ~(h.root = r /\ h.el = el)},
                             !.timers[r] = Without(@, el),
                             !.remaining[r] = @ - 1], r)

\* line 70 with the test el === parent
FinalizeIfRoot(w, r, el) == IF el = r THEN removeParentClass(w, r) ELSE w

\* markDone that finalizes when the root element itself is marked done
markDoneRootDecides(w, r, el) ==
    IF el \notin DOMAIN w.timers[r] THEN w
    ELSE FinalizeIfRoot([w EXCEPT !.pending = @ \ {w.timers[r][el]},
                                  !.timers[r] = Without(@, el),
                                  !.remaining[r] = @ - 1], r, el)

\* markDone(el) of the closure of root r
markDone(w, r, el) ==
    IF el \notin DOMAIN w.timers[r] THEN w
    ELSE FinalizeIfDone([w EXCEPT !.pending = @ \ {w.timers[r][el]},
                                  !.timers[r] = Without(@, el),
                                  !.remaining[r] = @ - 1], r)

\* line 85, after ended++
MarkIfEnded(w, r, el) ==
    IF w.ended[r][el] >= w.perElMeta[r][el].expectedCount THEN markDone(w, r, el) ELSE w

\* onEnd of participant el in the closure of root r
onEnd(w, r, el) == MarkIfEnded([w EXCEPT !.ended[r][el] = @ + 1], r, el)

\* setTimeout(() => markDone(el), delay) called at time w.now
Timeout(w, r, el, delay) == [root |-> r, el |-> el, due |-> w.now + delay]

\* lines 76-93 without the setTimeout of line 92: no timeout is live
TrackNoFallback(w, r, el, meta) ==
    IF meta.expectedCount = 0 \/ meta.maxMs = 0 THEN w
    ELSE [w EXCEPT !.remaining[r] = @ + 1,
                   !.perElMeta[r] = With(@, el, meta),
                   !.ended[r] = With(@, el, 0),
                   !.listeners[el] = Append(@, r),
                   !.timers[r] = With(@, el, Timeout(w, r, el, meta.maxMs + Margin))]

\* lines 76-93 with the test of line 76 reduced to expectedCount === 0
TrackIgnoresMaxMs(w, r, el, meta) ==
    IF meta.expectedCount = 0 THEN w
    ELSE [w EXCEPT !.remaining[r] = @ + 1,
                   !.perElMeta[r] = With(@, el, meta),
                   !.ended[r] = With(@, el, 0),
                   !.listeners[el] = Append(@, r),
                   !.pending = @ \cup {Timeout(w, r, el, meta.maxMs + Margin)},
                   !.timers[r] = With(@, el, Timeout(w, r, el, meta.maxMs + Margin))]

\* lines 76-93 without the timers.set of line 93
TrackUnrecorded(w, r, el, meta) ==
    IF meta.expectedCount = 0 \/ meta.maxMs = 0 THEN w
    ELSE [w EXCEPT !.remaining[r] = @ + 1,
                   !.perElMeta[r] = With(@, el, meta),
                   !.ended[r] = With(@, el, 0),
                   !.listeners[el] = Append(@, r),
                   !.pending = @ \cup {Timeout(w, r, el, meta.maxMs + Margin)}]

\* lines 76-93 without the remaining++ of line 78
TrackUncounted(w, r, el, meta) ==
    IF meta.expectedCount = 0 \/ meta.maxMs = 0 THEN w
    ELSE [w EXCEPT !.perElMeta[r] = With(@, el, meta),
                   !.ended[r] = With(@, el, 0),
                   !.listeners[el] = Append(@, r),
                   !.pending = @ \cup {Timeout(w, r, el, meta.maxMs + Margin)},
                   !.timers[r] = With(@, el, Timeout(w, r, el, meta.maxMs + Margin))]

\* lines 76-93 for one element with meta = getAnimMeta(el)
Track(w, r, el, meta) ==
    IF meta.expectedCount = 0 \/ meta.maxMs = 0 THEN w
    ELSE [w EXCEPT !.remaining[r] = @ + 1,
                   !.perElMeta[r] = With(@, el, meta),
                   !.ended[r] = With(@, el, 0),
                   !.listeners[el] = Append(@, r),
                   !.pending = @ \cup {Timeout(w, r, el, meta.maxMs + Margin)},
                   !.timers[r] = With(@, el, Timeout(w, r, el, meta.maxMs + Margin))]

\* the body of waitEls.forEach for one element (lines 73-94)
Register(w, r, el) == Track(w, r, el, getAnimMeta(w.style[el]))

RECURSIVE RegisterAll(_, _, _)
\* waitEls.forEach
RegisterAll(w, r, els) ==
    IF els = <<>> THEN w ELSE RegisterAll(Register(w, r, Head(els)), r, Tail(els))

\* lines 46-50 without line 33: the closure is opened, the flag is not set
OpenClosureUnflagged(w, parent) ==
    [w EXCEPT !.remaining[parent] = 0,
              !.timers[parent] = Empty,
              !.perElMeta[parent] = Empty,
              !.ended[parent] = Empty,
              !.startTime[parent] = w.now]

\* lines 33 and 46-50: the bound flag and a fresh closure
OpenClosure(w, parent) ==
    [w EXCEPT !.bound[parent] = TRUE,
              !.remaining[parent] = 0,
              !.timers[parent] = Empty,
              !.perElMeta[parent] = Empty,
              !.ended[parent] = Empty,
              !.startTime[parent] = w.now]

\* bindCleanup without line 109
FinalizeNever(w, parent) == w

\* line 109
FinalizeIfNothing(w, parent) ==
    IF w.remaining[parent] = 0 THEN removeParentClass(w, parent) ELSE w

\* lines 43-44: [parent, ...parent.querySelectorAll('.xyz-nested')]
WaitEls(w, parent) == <<parent>> \o QuerySelectorAll(w.parentOf, parent, w.nestedCls)

\* bindCleanup without the test of line 30
bindCleanupRebinds(w, parent) ==
    IF ~w.hasIn[parent] THEN w
    ELSE FinalizeIfNothing(
            RegisterAll(OpenClosure(w, parent), parent, WaitEls(w, parent)), parent)

\* bindCleanup(parent), parent an element
bindCleanup(w, parent) ==
    IF ~w.hasIn[parent] THEN w
    ELSE IF w.bound[parent] THEN w
    ELSE FinalizeIfNothing(
            RegisterAll(OpenClosure(w, parent), parent, WaitEls(w, parent)), parent)

RECURSIVE BindAll(_, _)
\* nodes.forEach(bindCleanup)
BindAll(w, nodes) ==
    IF nodes = <<>> THEN w ELSE BindAll(bindCleanup(w, Head(nodes)), Tail(nodes))

\* what xyzCleanup is called with: nothing, a value without querySelectorAll,
\* the document, an element
NotCalled == [kind |-> "none", node |-> Document]

Undefined == [kind |-> "undefined", node |-> Document]

NoQuery == [kind |-> "object", node |-> Document]

Node(n) == [kind |-> "node", node |-> n]

Roots == {Undefined, NoQuery} \cup {Node(n) : n \in Elems \cup {Document}}

\* line 113: root && root.querySelectorAll ? root : document
ScopeOf(root) == IF root.kind = "node" THEN root.node ELSE Document

\* the call is noted: its argument, and the marker met on every node of the list
NoteScan(w, root, nodes) ==
    [w EXCEPT !.lastRoot = root,
              !.seenMarked = [e \in Elems |-> @[e] \/ \E i \in 1..Len(nodes) : nodes[i] = e]]

\* line 115 binding the first node only, as after querySelector
ScanFirstOnly(w, root, nodes) ==
    IF nodes = <<>> THEN NoteScan(w, root, nodes)
    ELSE bindCleanup(NoteScan(w, root, nodes), Head(nodes))

\* line 115: nodes.forEach(bindCleanup)
ScanNodes(w, root, nodes) == BindAll(NoteScan(w, root, nodes), nodes)

\* bindCleanup without the test of line 29
bindCleanupUnmarked(w, parent) ==
    IF w.bound[parent] THEN w
    ELSE FinalizeIfNothing(
            RegisterAll(OpenClosure(w, parent), parent, WaitEls(w, parent)), parent)

RECURSIVE BindAllUnmarked(_, _)
\* nodes.forEach over bindCleanup without the test of line 29
BindAllUnmarked(w, nodes) ==
    IF nodes = <<>> THEN w
    ELSE BindAllUnmarked(bindCleanupUnmarked(w, Head(nodes)), Tail(nodes))

\* xyzCleanup that asks for every element of the scope and binds it, marked or not
xyzCleanupBindsAll(w, root) ==
    BindAllUnmarked(
        NoteScan(w, root, QuerySelectorAll(w.parentOf, ScopeOf(root), w.hasIn)),
        QuerySelectorAll(w.parentOf, ScopeOf(root), [e \in Elems |-> TRUE]))

\* xyzCleanup that returns at once when root cannot be queried
xyzCleanupSkipsUnqueryable(w, root) ==
    IF root.kind = "object" THEN NoteScan(w, root, <<>>)
    ELSE ScanNodes(w, root, QuerySelectorAll(w.parentOf, ScopeOf(root), w.hasIn))

\* xyzCleanup that scans nothing when it is called without a scope
xyzCleanupNeedsScope(w, root) ==
    IF root.kind = "undefined" THEN NoteScan(w, root, <<>>)
    ELSE ScanNodes(w, root, QuerySelectorAll(w.parentOf, ScopeOf(root), w.hasIn))

\* xyzCleanup(root)
xyzCleanup(w, root) ==
    ScanNodes(w, root, QuerySelectorAll(w.parentOf, ScopeOf(root), w.hasIn))

\* runCleanup that scans only when xyzCleanup has never been called before
runCleanupFirstOnly(w) ==
    IF w.lastRoot # NotCalled THEN w ELSE xyzCleanup(w, Node(Document))

\* runCleanup without the flag: xyzCleanup(document)
runCleanup(w) == xyzCleanup(w, Node(Document))

RECURSIVE CallListeners(_, _, _)
\* the listeners of element el, called in the order they were added
CallListeners(w, el, rs) ==
    IF rs = <<>> THEN w ELSE CallListeners(onEnd(w, Head(rs), el), el, Tail(rs))

RECURSIVE Propagate(_, _)
\* an animationend event travelling up the path
Propagate(w, path) ==
    IF path = <<>> THEN w
    ELSE Propagate(CallListeners(w, Head(path), w.listeners[Head(path)]), Tail(path))

\* an animationend event dispatched at element target
dispatchAnimationEnd(w, target) == Propagate(w, PathUp(w.parentOf, target))

----------------------------------------------------------------------------
(* The initial states: a page, and the script run once on it.              *)

\* the state before the script runs, for the page pg
Blank(pg) ==
    [parentOf |-> pg.parentOf, nestedCls |-> pg.nestedCls, style |-> pg.style,
     hasIn |-> pg.hasIn,
     bound |-> [e \in Elems |-> FALSE],
     listeners |-> [e \in Elems |-> <<>>],
     remaining |-> [e \in Elems |-> 0],
     timers |-> [e \in Elems |-> Empty],
     perElMeta |-> [e \in Elems |-> Empty],
     ended |-> [e \in Elems |-> Empty],
     startTime |-> [e \in Elems |-> 0],
     pending |-> {},
     now |-> 0,
     finalized |-> [e \in Elems |-> 0],
     seenMarked |-> [e \in Elems |-> FALSE],
     lastRoot |-> NotCalled]

\* the pages of the model; element 1 has no ancestor to be nested in
Pages ==
    {pg \in [parentOf : Layouts, nestedCls : [Elems -> BOOLEAN],
             style : [Elems -> Styles], hasIn : [Elems -> BOOLEAN]] :
        ~pg.nestedCls[1]}

\* the pages on which the style of some element is early or unreadable
WidePages ==
    {pg \in [parentOf : Layouts, nestedCls : [Elems -> BOOLEAN],
             style : [Elems -> WideStyles], hasIn : [Elems -> BOOLEAN]] :
        ~pg.nestedCls[1] /\ \E e \in Elems : pg.style[e] \in {StyleEarly, Unreadable}}

\* the animations of a style the browser runs, each ending with one animationend
RunningAnims(cs) == {i \in 1..Len(cs.names) : Trim(cs.names[i]) \notin {<<>>, None}}

\* the moment animation i of a style ends
EndTime(cs, i) == AnimEntries(cs)[i].duration + AnimEntries(cs)[i].delay

\* the animations of an element with computed style cs as the browser runs them
Timeline(cs) ==
    [i \in RunningAnims(cs) |-> [at |-> EndTime(cs, i), fate |-> "running"]]

\* the variables after the script has run and left the world w
StartWith(w, loading) ==
    /\ parentOf = w.parentOf
    /\ nestedCls = w.nestedCls
    /\ style = w.style
    /\ hasIn = w.hasIn
    /\ bound = w.bound
    /\ listeners = w.listeners
    /\ remaining = w.remaining
    /\ timers = w.timers
    /\ perElMeta = w.perElMeta
    /\ ended = w.ended
    /\ startTime = w.startTime
    /\ pending = w.pending
    /\ finalized = w.finalized
    /\ seenMarked = w.seenMarked
    /\ lastRoot = w.lastRoot
    /\ now = 0
    /\ hasRunInitialCleanup = ~loading
    /\ dclListener = loading
    /\ anims = [e \in Elems |-> Timeline(w.style[e])]
    /\ nEvents = 0

\* lines 126-147: the script runs while document.readyState is 'loading', or later
Start(pg, loading) ==
    StartWith(IF loading THEN Blank(pg) ELSE runCleanup(Blank(pg)), loading)

Init == \E pg \in Pages : \E loading \in BOOLEAN : Start(pg, loading)

----------------------------------------------------------------------------
(* The steps.                                                              *)

\* line 140 without the test of hasRunInitialCleanup
RunAlways(w, skip) == runCleanup(w)

\* lines 129-132 and 140
RunOrSkip(w, skip) == IF skip THEN w ELSE runCleanup(w)

\* the once-listener for DOMContentLoaded (lines 137-143)
DOMContentLoaded ==
    /\ dclListener
    /\ dclListener' = FALSE
    /\ Commit(RunOrSkip(World, hasRunInitialCleanup))
    /\ hasRunInitialCleanup' = TRUE
    /\ UNCHANGED <<pageVars, now, anims, nEvents>>

\* the listener for 'astro:page-load' (lines 129-134)
AstroPageLoad ==
    /\ Commit(runCleanup(World))
    /\ hasRunInitialCleanup' = TRUE
    /\ UNCHANGED <<pageVars, now, dclListener, anims, nEvents>>

\* window.MI.xyzCleanup(root), called by other code
OnDemand(root) ==
    /\ Commit(xyzCleanup(World, root))
    /\ UNCHANGED <<pageVars, now, hasRunInitialCleanup, dclListener, anims, nEvents>>

\* other code adds the class 'xyz-in' to element e
ApplyMarker(e) ==
    /\ ~hasIn[e]
    /\ hasIn' = [hasIn EXCEPT ![e] = TRUE]
    /\ seenMarked' = [seenMarked EXCEPT ![e] = FALSE]
    /\ UNCHANGED <<pageVars, bound, listeners, remaining, timers, perElMeta, ended,
                   startTime, pending, now, hasRunInitialCleanup, dclListener,
                   finalized, lastRoot, anims, nEvents>>

\* the browser delivers an animationend event at element t, which runs an
\* animation: at any moment and any number of times (late, repeated or never)
AnimationEnd(t) ==
    /\ nEvents < MaxEvents
    /\ RunningAnims(style[t]) # {}
    /\ nEvents' = nEvents + 1
    /\ Commit(dispatchAnimationEnd(World, t))
    /\ UNCHANGED <<pageVars, now, hasRunInitialCleanup, dclListener, anims>>

\* the timeout h (line 92) has fired: it is no longer live
Fired(w, h) == [w EXCEPT !.pending = @ \ {h}]

\* the timeout h of line 92 fires: () => markDone(el)
TimerFire(h) ==
    /\ h \in pending
    /\ Commit(markDone(Fired(World, h), h.root, h.el))
    /\ UNCHANGED <<pageVars, now, hasRunInitialCleanup, dclListener, anims, nEvents>>

Next ==
    \/ DOMContentLoaded
    \/ AstroPageLoad
    \/ \E root \in Roots : OnDemand(root)
    \/ \E e \in Elems : ApplyMarker(e)
    \/ \E t \in Elems : AnimationEnd(t)
    \/ \E h \in pending : TimerFire(h)

Spec == Init /\ [][Next]_vars

\* a live timeout fires
SomeTimerFires == \E h \in pending : TimerFire(h)

\* the browser fires every timeout that stays live
LiveSpec == Init /\ [][Next]_vars /\ WF_vars(SomeTimerFires)

\* animation names as split(',') leaves them: empty, 'none', ' none', 'fade'
CssNames == {<<>>, None, <<" ">> \o None, <<"f", "a", "d", "e">>}

\* duration tokens: '0s', '0.2s', '100ms'
CssDurations == { <<"0", "s">>, <<"0", ".", "2", "s">>, <<"1", "0", "0", "m", "s">> }

\* delay tokens: '0s', '-0.3s', ' 50ms'
CssDelays == { <<"0", "s">>, <<"-", "0", ".", "3", "s">>, <<" ", "5", "0", "m", "s">> }

\* the lists of one or two items of S
OneOrTwo(S) == {<<x>> : x \in S} \cup {<<x, y>> : x \in S, y \in S}

\* the computed styles made of these lists, of equal or different length
CssStyles ==
    [names : OneOrTwo(CssNames), durations : OneOrTwo(CssDurations),
     delays : OneOrTwo(CssDelays)]

\* a page with the marked element 1 in one of these styles beside element 2
CssPages ==
    {[parentOf |-> <<Document, Document>>,
      nestedCls |-> [e \in Elems |-> FALSE],
      style |-> [e \in Elems |-> IF e = 1 THEN cs ELSE StyleNone],
      hasIn |-> [e \in Elems |-> e = 1]] : cs \in CssStyles}

\* the script runs on such a page while it is loading
CssInit == \E pg \in CssPages : Start(pg, TRUE)

CssNext ==
    \/ DOMContentLoaded
    \/ AstroPageLoad
    \/ \E t \in Elems : AnimationEnd(t)
    \/ \E h \in pending : TimerFire(h)

CssSpec == CssInit /\ [][CssNext]_vars

\* time tokens, each with the milliseconds it stands for: '', '0s', '0.2s',
\* '0.25s', '.5s', '+2s', '-0.3s', '7', '100ms', ' 50ms ', 'ms', 'abc', 'x5s'
TokenTable ==
    { [token |-> <<>>, ms |-> 0],
      [token |-> <<"0", "s">>, ms |-> 0],
      [token |-> <<"0", ".", "2", "s">>, ms |-> 200],
      [token |-> <<"0", ".", "2", "5", "s">>, ms |-> 250],
      [token |-> <<".", "5", "s">>, ms |-> 500],
      [token |-> <<"+", "2", "s">>, ms |-> 2000],
      [token |-> <<"-", "0", ".", "3", "s">>, ms |-> 0 - 300],
      [token |-> <<"7">>, ms |-> 7000],
      [token |-> <<"1", "0", "0", "m", "s">>, ms |-> 100],
      [token |-> <<" ", "5", "0", "m", "s", " ">>, ms |-> 50],
      [token |-> <<"m", "s">>, ms |-> 0],
      [token |-> <<"a", "b", "c">>, ms |-> 0],
      [token |-> <<"x", "5", "s">>, ms |-> 0] }

TimeTokens == {x.token : x \in TokenTable}

\* one animation 'fade' with a duration and a delay among the tokens
TokenStyles ==
    {[names |-> << <<"f", "a", "d", "e">> >>, durations |-> <<d>>, delays |-> <<l>>] :
        d \in TimeTokens, l \in TimeTokens}

\* a page with the marked element 1 in one of these styles beside element 2
TokenPages ==
    {[parentOf |-> <<Document, Document>>,
      nestedCls |-> [e \in Elems |-> FALSE],
      style |-> [e \in Elems |-> IF e = 1 THEN cs ELSE StyleNone],
      hasIn |-> [e \in Elems |-> e = 1]] : cs \in TokenStyles}

\* the script runs on such a page while it is loading
TokenInit == \E pg \in TokenPages : Start(pg, TRUE)

TokenSpec == TokenInit /\ [][CssNext]_vars

\* the pages with the unusual styles, scanned and left to the browser
WideInit == \E pg \in WidePages : \E loading \in BOOLEAN : Start(pg, loading)

WideNext ==
    \/ DOMContentLoaded
    \/ AstroPageLoad
    \/ \E root \in Roots : OnDemand(root)
    \/ \E t \in Elems : AnimationEnd(t)
    \/ \E h \in pending : TimerFire(h)

WideSpec == WideInit /\ [][WideNext]_vars

----------------------------------------------------------------------------
(* The timed browser: the script runs at time 0 on a loaded page, whose    *)
(* animations start at time 0.  Every animation ends once; its            *)
(* animationend is delivered at that moment, or lost.  Every timeout fires *)
(* at the moment it is due.                                                *)

\* the animations of element t that are still running
StillRunning(t) == {i \in DOMAIN anims[t] : anims[t][i].fate = "running"}

\* the animations of element t that end now
EndingNow(t) == {i \in StillRunning(t) : anims[t][i].at = now}

\* animation i of element t ends and the browser delivers its animationend
TimedAnimationEnd(t, i) ==
    /\ i \in EndingNow(t)
    /\ anims' = [anims EXCEPT ![t][i].fate = "ended"]
    /\ nEvents' = nEvents + 1
    /\ Commit(dispatchAnimationEnd(World, t))
    /\ UNCHANGED <<pageVars, now, hasRunInitialCleanup, dclListener>>

\* animation i of element t ends and its animationend never arrives
LostAnimationEnd(t, i) ==
    /\ i \in EndingNow(t)
    /\ anims' = [anims EXCEPT ![t][i].fate = "lost"]
    /\ UNCHANGED <<pageVars, hasIn, bound, listeners, remaining, timers, perElMeta,
                   ended, startTime, pending, now, hasRunInitialCleanup, dclListener,
                   finalized, seenMarked, lastRoot, nEvents>>

\* the timeout h fires at the moment it is due
TimedTimerFire(h) ==
    /\ h \in pending
    /\ h.due = now
    /\ Commit(markDone(Fired(World, h), h.root, h.el))
    /\ UNCHANGED <<pageVars, now, hasRunInitialCleanup, dclListener, anims, nEvents>>

\* the moments something is still to happen
Instants ==
    {h.due : h \in pending}
        \cup UNION {{anims[t][i].at : i \in StillRunning(t)} : t \in Elems}

\* nothing is left to happen now: the clock moves to the next instant
Tick ==
    /\ now \notin Instants
    /\ Instants # {}
    /\ now' = CHOOSE d \in Instants : \A x \in Instants : d <= x
    /\ UNCHANGED <<pageVars, hasIn, bound, listeners, remaining, timers, perElMeta,
                   ended, startTime, pending, hasRunInitialCleanup, dclListener,
                   finalized, seenMarked, lastRoot, anims, nEvents>>

TimedInit == \E pg \in Pages : Start(pg, FALSE)

TimedNext ==
    \/ \E t \in Elems : \E i \in 1..2 : TimedAnimationEnd(t, i)
    \/ \E t \in Elems : \E i \in 1..2 : LostAnimationEnd(t, i)
    \/ \E h \in pending : TimedTimerFire(h)
    \/ Tick

TimedSpec == TimedInit /\ [][TimedNext]_vars

\* an animation that ends now ends, its animationend lost or delivered
AnimationEnds ==
    \E t \in Elems : \E i \in 1..2 : LostAnimationEnd(t, i) \/ TimedAnimationEnd(t, i)

\* a timeout that is due fires
DueTimerFires == \E h \in pending : TimedTimerFire(h)

\* the clock keeps moving and what is due happens
TimedLiveSpec ==
    TimedInit /\ [][TimedNext]_vars
        /\ WF_vars(Tick) /\ WF_vars(AnimationEnds) /\ WF_vars(DueTimerFires)

----------------------------------------------------------------------------
(* The claims.                                                             *)

\* the participants root r registered for tracking
Tracked(r) == DOMAIN perElMeta[r]

\* the tracked participants of root r not yet marked done
Live(r) == DOMAIN timers[r]

\* C1: for every bound root, whatever events and timeouts arrive and in whatever
\* order, removeParentClass has run exactly once as soon as all its tracked
\* participants are done (at once when there are none), and not at all before.
C1_ExactlyOnce ==
    \A r \in Elems :
        finalized[r] = IF bound[r] /\ Live(r) = {} THEN 1 ELSE 0

\* a root with two tracked participants was finalized after events arrived
C1_Witness ==
    \E r \in Elems :
        Cardinality(Tracked(r)) = 2 /\ Live(r) = {} /\ finalized[r] = 1 /\ nEvents >= 2

\* C2: while a root with more than one tracked participant has a participant
\* that is not yet marked done, the coordinator has not removed its marker.
C2_NoPrematureFinalization ==
    \A r \in Elems :
        (Cardinality(Tracked(r)) > 1 /\ Live(r) # {}) => (hasIn[r] /\ finalized[r] = 0)

\* one of two tracked participants is done, the other is not
C2_Witness ==
    \E r \in Elems :
        Cardinality(Tracked(r)) = 2 /\ Cardinality(Live(r)) = 1 /\ hasIn[r]

\* the animations of element el whose animationend has been delivered
OwnEnded(el) == {i \in DOMAIN anims[el] : anims[el][i].fate = "ended"}

\* no animationend has been lost so far
NoneLost == \A t \in Elems : \A i \in DOMAIN anims[t] : anims[t][i].fate # "lost"

\* C3: a step in which an animationend event marks a tracked participant done
\* leaves at least expectedCount of that participant's own animations ended.
C3_DoneOnlyByOwnEvents ==
    [][\A r \in Elems : \A el \in Elems :
          (nEvents' # nEvents /\ el \in DOMAIN timers[r] /\ el \notin DOMAIN timers'[r])
              => Cardinality({i \in DOMAIN anims'[el] : anims'[el][i].fate = "ended"})
                    >= perElMeta[r][el].expectedCount]_vars

RECURSIVE LatestOf(_, _)
\* the largest maxMs among the participants els of root r
LatestOf(r, els) ==
    IF els = {} THEN 0
    ELSE Max(perElMeta[r][CHOOSE el \in els : TRUE].maxMs,
             LatestOf(r, els \ {CHOOSE el \in els : TRUE}))

\* the latest animation end among the tracked participants of root r
LatestEnd(r) == LatestOf(r, Tracked(r))

\* C4: with every animationend delivered at the moment its animation ends, a
\* root is finalized once, no earlier than the latest animation end among its
\* participants and no later than the largest maxMs + 50ms after binding.
C4_FinalizedInWindow ==
    [][\A r \in Elems :
          /\ (NoneLost' /\ finalized'[r] # finalized[r])
                => /\ finalized'[r] = 1
                   /\ now >= startTime[r] + LatestEnd(r)
                   /\ now <= startTime[r] + LatestEnd(r) + 50
          /\ (NoneLost' /\ bound'[r] /\ now' > startTime'[r] + LatestEnd(r) + 50)
                => finalized'[r] = 1]_vars

\* C5: the timeout of every tracked participant not yet done is live, due
\* maxMs + 50ms after its registration and not overdue; with the clock moving,
\* every tracked participant is marked done and every bound root is finalized,
\* whether its animationend events are delivered or lost.
C5_FallbackFinalizes ==
    /\ [](\A r \in Elems : \A el \in Live(r) :
            /\ timers[r][el] \in pending
            /\ timers[r][el].due = startTime[r] + perElMeta[r][el].maxMs + 50
            /\ now <= timers[r][el].due)
    /\ \A r \in Elems : \A el \in Elems : [](el \in Live(r) => <>(el \notin Live(r)))
    /\ \A r \in Elems : [](bound[r] => <>(finalized[r] >= 1))

\* a root with two tracked participants, none of whose animationend events
\* arrived, was finalized when the last timeout fired
C5_Witness ==
    \E r \in Elems :
        /\ Cardinality(Tracked(r)) = 2
        /\ finalized[r] = 1
        /\ nEvents = 0
        /\ now = startTime[r] + LatestEnd(r) + 50

\* C6: an element whose marker was met by a scan covering it eventually has
\* the marker removed.
C6_NoStuckSubtree ==
    \A e \in Elems : []((seenMarked[e] /\ hasIn[e]) => <>(~hasIn[e]))

\* the participants a bindCleanup of root r looks at
Participants(r) == {r} \cup {e \in Elems : IsInside(parentOf, e, r) /\ nestedCls[e]}

\* no participant of root r has a non-trivial animation
TrivialRoot(r) == \A el \in Participants(r) : getAnimMeta(style[el]).expectedCount = 0

\* root r listens on element el
ListensOn(r, el) == \E i \in 1..Len(listeners[el]) : listeners[el][i] = r

\* C7: a bound root none of whose participants has a non-trivial animation is
\* already finalized when its bindCleanup call has returned, and has no
\* listener and no timeout.
C7_FastPath ==
    \A r \in Elems :
        (bound[r] /\ TrivialRoot(r))
            => /\ finalized[r] = 1
               /\ Tracked(r) = {} /\ Live(r) = {}
               /\ \A h \in pending : h.root # r
               /\ \A el \in Elems : ~ListensOn(r, el)

\* a bound root with a nested participant and no non-trivial animation
C7_Witness ==
    \E r \in Elems : bound[r] /\ TrivialRoot(r) /\ Participants(r) # {r}

\* a step that is a scan of root, which the scan leaves in lastRoot: an
\* on-demand call, or the start-up or 'astro:page-load' scan of the document
ScanOf(root) ==
    /\ lastRoot' = root
    /\ \/ OnDemand(root)
       \/ /\ root = Node(Document)
          /\ AstroPageLoad \/ (~hasRunInitialCleanup /\ DOMContentLoaded)

\* C8: a scan leaves the remaining-count, the timers, the counters, the
\* timeouts and the listeners of every root that is already bound unchanged.
C8_IdempotentScan ==
    [][(\E root \in Roots : ScanOf(root)) =>
          \A r \in Elems :
              bound[r] =>
                  /\ remaining'[r] = remaining[r]
                  /\ timers'[r] = timers[r]
                  /\ perElMeta'[r] = perElMeta[r]
                  /\ ended'[r] = ended[r]
                  /\ {h \in pending' : h.root = r} = {h \in pending : h.root = r}
                  /\ \A el \in Elems :
                        SelectSeq(listeners'[el], LAMBDA x : x = r)
                            = SelectSeq(listeners[el], LAMBDA x : x = r)]_vars

\* a scan met the marker of a root that was bound and finalized before, while
\* the cycle of a root is in flight
C8_Witness ==
    \E r \in Elems : \E q \in Elems :
        bound[r] /\ finalized[r] = 1 /\ hasIn[r] /\ seenMarked[r] /\ Live(q) # {}

\* C9 as claimed: after a scan of the subtree of element n, n itself and every
\* descendant of n that carried the marker is bound.
C9_ScopeAndDescendantsBound ==
    [][\A n \in Elems :
          (lastRoot' = Node(n) /\ OnDemand(Node(n))) =>
              \A e \in Elems :
                  ((e = n \/ IsInside(parentOf, e, n)) /\ hasIn[e]) => bound'[e]]_vars

\* C9 amended: after a scan, every proper descendant of the scope that carried
\* the marker is bound, with live trackers or already finalized.
C9_DescendantsBound ==
    [][\A root \in Roots :
          ScanOf(root) =>
              \A e \in Elems :
                  (IsInside(parentOf, e, ScopeOf(root)) /\ hasIn[e])
                      => (bound'[e] /\ (DOMAIN timers'[e] # {} \/ finalized'[e] >= 1))]_vars

\* the subtree of element 1 was scanned: element 2 inside it is bound, element 1
\* carries the marker and is not bound
C9_Witness ==
    /\ lastRoot = Node(1)
    /\ parentOf[2] = 1
    /\ bound[2] /\ seenMarked[2]
    /\ hasIn[1] /\ ~bound[1]

\* C10 as claimed: a call with a value that has no querySelectorAll binds
\* nothing, creates no listener or timeout and removes no marker.
C10_UnqueryableIsNoOp ==
    [][(lastRoot' = NoQuery /\ OnDemand(NoQuery)) =>
          UNCHANGED <<hasIn, bound, listeners, remaining, timers, pending>>]_vars

\* C10 amended: a call with a value that has no querySelectorAll scans the
\* whole document: every element that carried the marker is bound.
C10_UnqueryableScansDocument ==
    [][(lastRoot' = NoQuery /\ OnDemand(NoQuery)) =>
          \A e \in Elems :
              hasIn[e] => (bound'[e] /\ (DOMAIN timers'[e] # {} \/ finalized'[e] >= 1))]_vars

\* the last call had a scope without querySelectorAll, no start-up scan has run
\* and an element is bound
C10_Witness ==
    /\ lastRoot = NoQuery
    /\ dclListener /\ ~hasRunInitialCleanup
    /\ \E e \in Elems : bound[e] /\ seenMarked[e]

\* the closure of root r holds nothing: no tracker, no timeout, no listener
NoTrackers(r) ==
    /\ Tracked(r) = {} /\ Live(r) = {}
    /\ \A h \in pending : h.root # r
    /\ \A el \in Elems : ~ListensOn(r, el)

\* C11: a scan leaves every element that does not carry the marker and is not
\* bound unbound, without listener, timeout or finalization; and an element that
\* was never bound has no listener, no timeout and no finalization.
C11_UnmarkedNeverBound ==
    /\ [](\A e \in Elems : ~bound[e] => (finalized[e] = 0 /\ NoTrackers(e)))
    /\ [][(\E root \in Roots : ScanOf(root)) =>
            \A e \in Elems :
                (~hasIn[e] /\ ~bound[e]) => (~bound'[e] /\ finalized'[e] = 0)]_vars

\* a scan covered an element without the marker and left it unbound, and bound
\* another element
C11_Witness ==
    \E e \in Elems : \E q \in Elems :
        /\ ~hasIn[e] /\ ~bound[e] /\ ~seenMarked[e]
        /\ IsInside(parentOf, e, ScopeOf(lastRoot)) /\ lastRoot # NotCalled
        /\ bound[q] /\ seenMarked[q]

\* C12: a scan does not bind a finalized root again while its marker is absent;
\* a scan that covers a finalized root whose marker was applied again starts a
\* new cycle for it: new trackers, or a new finalization at once.
C12_RebindAfterReapply ==
    [][\A root \in Roots :
          ScanOf(root) =>
              \A e \in Elems :
                  /\ (~hasIn[e] /\ finalized[e] >= 1)
                        => (timers'[e] = timers[e] /\ finalized'[e] = finalized[e])
                  /\ (IsInside(parentOf, e, ScopeOf(root)) /\ hasIn[e] /\ finalized[e] >= 1)
                        => (DOMAIN timers'[e] # {} \/ finalized'[e] = finalized[e] + 1)]_vars

\* C13: a scan binds every marked, unbound element of its scope also when the
\* style of a participant cannot be read: that participant gets no tracker, no
\* listener and no timeout, the participants with a 200ms or 100ms+300ms
\* animation are tracked, and a root whose participants are all unreadable or
\* without animation is finalized by the scan.
C13_StyleErrorIsTrivial ==
    [][\A root \in Roots :
          ScanOf(root) =>
              \A e \in Elems :
                  (IsInside(parentOf, e, ScopeOf(root)) /\ hasIn[e] /\ ~bound[e])
                      => /\ bound'[e]
                         /\ \A el \in Participants(e) :
                              /\ style[el] = Unreadable
                                    => /\ el \notin DOMAIN perElMeta'[e]
                                       /\ el \notin DOMAIN timers'[e]
                                       /\ \A i \in 1..Len(listeners'[el]) : listeners'[el][i] # e
                                       /\ \A h \in pending' : ~(h.root = e /\ h.el = el)
                              /\ style[el] \in {StyleOne, StyleTwo}
                                    => el \in DOMAIN perElMeta'[e]
                         /\ (\A el \in Participants(e) : style[el] \in {Unreadable, StyleNone})
                                => finalized'[e] = 1]_vars

\* while the document was still loading, a scan bound a root with an unreadable
\* participant and a tracked one
C13_Witness ==
    \E r \in Elems : \E el \in Participants(r) : \E q \in Tracked(r) :
        bound[r] /\ seenMarked[r] /\ style[el] = Unreadable /\ dclListener

\* C14: when a call of xyzCleanup without a scope has returned, every element of
\* the document that carried the marker is bound, and for every root the call
\* bound, each participant with a 200ms or 100ms+300ms animation has its
\* listener and its live timeout.
C14_NoScopeIsDocumentAndSynchronous ==
    [][(lastRoot' = Undefined /\ OnDemand(Undefined)) =>
          \A e \in Elems :
              hasIn[e] =>
                  /\ bound'[e]
                  /\ ~bound[e] =>
                        \A el \in Participants(e) :
                            style[el] \in {StyleOne, StyleTwo} =>
                                /\ el \in DOMAIN timers'[e]
                                /\ timers'[e][el] \in pending'
                                /\ \E i \in 1..Len(listeners'[el]) : listeners'[el][i] = e]_vars

\* before any start-up scan, a call without a scope was the last one and a root
\* is bound with live trackers
C14_Witness ==
    /\ lastRoot = Undefined
    /\ dclListener /\ ~hasRunInitialCleanup
    /\ \E e \in Elems : bound[e] /\ seenMarked[e] /\ Live(e) # {}

TimeoutsOf(r, el) == {h \in pending : h.root = r /\ h.el = el}

\* C16: a tracked participant that is not yet marked done has exactly one live
\* timeout, the one in the timers Map; a participant that is marked done has
\* none, so no timeout is left to fire for it.
C16_OneTimerClearedWhenDone ==
    \A r \in Elems : \A el \in Elems :
        TimeoutsOf(r, el) = IF el \in Live(r) THEN {timers[r][el]} ELSE {}

\* a participant was marked done by its events before its timeout was due
C16_Witness ==
    \E r \in Elems : \E el \in Tracked(r) \ Live(r) :
        /\ now < startTime[r] + perElMeta[r][el].maxMs + Margin
        /\ ended[r][el] >= perElMeta[r][el].expectedCount

\* C17: the remaining-count of a root is never negative and never more than the
\* number of its tracked participants; when a step binds the root it is that
\* number; afterwards no step increases it, so once it is zero it stays zero.
C17_RemainingCountsDown ==
    /\ [](\A r \in Elems :
            remaining[r] >= 0 /\ remaining[r] <= Cardinality(Tracked(r)))
    /\ [][\A r \in Elems :
            /\ (~bound[r] /\ bound'[r])
                  => remaining'[r] = Cardinality(DOMAIN perElMeta'[r])
            /\ bound[r]
                  => (remaining'[r] <= remaining[r]
                        /\ perElMeta'[r] = perElMeta[r])]_vars

\* the count of a root with two tracked participants came down to zero without
\* any event
C17_Witness ==
    \E r \in Elems :
        Cardinality(Tracked(r)) = 2 /\ remaining[r] = 0 /\ nEvents = 0 /\ seenMarked[r]

\* how many listeners root r has on element el
ListenerCount(r, el) == Len(SelectSeq(listeners[el], LAMBDA x : x = r))

\* C18 as claimed: a participant of a bound root is tracked, with one listener,
\* if and only if its expectedCount is greater than 0.
C18_TrackedIffExpected ==
    \A r \in Elems :
        bound[r] =>
            \A el \in Participants(r) :
                /\ el \in Tracked(r) <=> getAnimMeta(style[el]).expectedCount > 0
                /\ ListenerCount(r, el) = IF el \in Tracked(r) THEN 1 ELSE 0

\* C18 amended: a participant of a bound root is tracked, with one listener, if
\* and only if its expectedCount and its maxMs are both greater than 0.
C18_TrackedIffExpectedAndLasting ==
    \A r \in Elems :
        bound[r] =>
            \A el \in Participants(r) :
                /\ el \in Tracked(r)
                      <=> (getAnimMeta(style[el]).expectedCount > 0
                              /\ getAnimMeta(style[el]).maxMs > 0)
                /\ ListenerCount(r, el) = IF el \in Tracked(r) THEN 1 ELSE 0

\* while the document was still loading, a scan bound a root and left its
\* participant with one animation of 200ms delayed by -200ms untracked
C18_Witness ==
    \E r \in Elems : \E el \in Participants(r) :
        /\ bound[r] /\ dclListener
        /\ style[el] = StyleEarly
        /\ getAnimMeta(style[el]).expectedCount = 1
        /\ el \notin Tracked(r)

\* C19: the step that brings the remaining-count of a root from above zero to
\* zero removes its marker and is its finalization; in no state is a root bound
\* with a remaining-count of zero and not finalized.
C19_FinalizedWithLastDone ==
    /\ [](\A r \in Elems : (bound[r] /\ remaining[r] = 0) => finalized[r] >= 1)
    /\ [][\A r \in Elems :
            (bound[r] /\ remaining[r] > 0 /\ remaining'[r] = 0)
                => (~hasIn'[r] /\ finalized'[r] = finalized[r] + 1)]_vars

\* a root with two tracked participants is finalized; one participant has
\* received the events it expected, the other none
C19_Witness ==
    \E r \in Elems : \E el \in Tracked(r) : \E q \in Tracked(r) :
        /\ Live(r) = {} /\ ~hasIn[r] /\ finalized[r] = 1
        /\ ended[r][el] >= perElMeta[r][el].expectedCount
        /\ ended[r][q] = 0

\* the roots in whose closure element el is tracked
RootsTracking(el) == {r \in Elems : el \in Tracked(r)}

\* C20: no element is tracked in the closures of two different roots.
C20_OneRootPerParticipant ==
    \A el \in Elems : Cardinality(RootsTracking(el)) <= 1

\* the state of the closure of root b and its marker are left as they were
ClosureUnchanged(b) ==
    /\ ended'[b] = ended[b]
    /\ remaining'[b] = remaining[b]
    /\ timers'[b] = timers[b]
    /\ hasIn'[b] = hasIn[b]

\* C21: an animationend event at a tracked participant of root a that is no
\* participant of root b, and the timeout of a participant of another root,
\* leave the counters, the remaining-count, the timers and the marker of root b
\* unchanged.
C21_RootsIndependent ==
    [][/\ \A t \in Elems :
            (nEvents' # nEvents /\ AnimationEnd(t))
                => \A a \in Elems : \A b \in Elems :
                      (a # b /\ t \in Tracked(a) /\ t \notin Participants(b))
                          => ClosureUnchanged(b)
       /\ \A h \in pending :
            (h \notin pending' /\ TimerFire(h))
                => \A b \in Elems : b # h.root => ClosureUnchanged(b)]_vars

\* C22: in every state, a root that has a listener on some element or a live
\* timeout has its bound flag set.
C22_BoundBeforeTrackers ==
    \A r \in Elems :
        ((\E el \in Elems : ListensOn(r, el)) \/ (\E h \in pending : h.root = r))
            => bound[r]

\* while the document was still loading, a scan bound a root that now has two
\* listeners and two live timeouts
C22_Witness ==
    \E r \in Elems :
        /\ dclListener /\ bound[r]
        /\ Cardinality({el \in Elems : ListensOn(r, el)}) = 2
        /\ Cardinality({h \in pending : h.root = r}) = 2

\* the orders in which the elements of the list s can be taken
Perms(s) ==
    {p \in [1..Len(s) -> {s[i] : i \in 1..Len(s)}] :
        \A i \in 1..Len(s) : \E j \in 1..Len(s) : p[j] = s[i]}

\* lines 33-109 of bindCleanup with waitEls taken in the order els
BindInOrder(w, parent, els) ==
    FinalizeIfNothing(RegisterAll(OpenClosure(w, parent), parent, els), parent)

RECURSIVE FinalizedOnlyAtEnd(_, _, _)
\* marking the participants els of root r done one after the other in the world
\* w finalizes r with the last of them and not before
FinalizedOnlyAtEnd(w, r, els) ==
    IF els = <<>> THEN w.finalized[r] = 1 /\ ~w.hasIn[r]
    ELSE /\ w.finalized[r] = 0 /\ w.hasIn[r]
         /\ FinalizedOnlyAtEnd(markDone(w, r, Head(els)), r, Tail(els))

\* binding root r in the order p tracks the same participants as the document
\* order, and every order of marking them done finalizes r once, at the end
OrderFree(w, r, p) ==
    /\ DOMAIN BindInOrder(w, r, p).perElMeta[r] = DOMAIN bindCleanup(w, r).perElMeta[r]
    /\ BindInOrder(w, r, p).remaining[r] = bindCleanup(w, r).remaining[r]
    /\ \A q \in Perms(Ascending(DOMAIN BindInOrder(w, r, p).timers[r])) :
          FinalizedOnlyAtEnd(BindInOrder(w, r, p), r, q)

\* C23: for a marked root that is not yet bound, every order of registering its
\* participants followed by every order of marking them done finalizes the root
\* exactly once, with the last participant and not before.
C23_OrderIndependent ==
    \A r \in Elems :
        (hasIn[r] /\ ~bound[r]) =>
            \A p \in Perms(WaitEls(World, r)) : OrderFree(World, r, p)

\* a marked root not yet bound whose two participants both have animations
C23_Witness ==
    \E r \in Elems :
        /\ hasIn[r] /\ ~bound[r]
        /\ Cardinality(Participants(r)) = 2
        /\ \A el \in Participants(r) : style[el] \in {StyleOne, StyleTwo}

\* the coordinator has touched nothing
NothingScanned ==
    UNCHANGED <<hasIn, bound, listeners, remaining, timers, perElMeta, ended,
                pending, finalized, seenMarked, lastRoot>>

\* C24: the DOMContentLoaded handler is installed only while no start-up scan
\* has run at script start; once it is gone it is never installed again; when
\* it fires after a scan by runCleanup it scans nothing, otherwise it scans the
\* document; without the handler the start-up scan has already run.
C24_InitialScanOnce ==
    /\ [](~dclListener => (hasRunInitialCleanup /\ lastRoot # NotCalled))
    /\ [][/\ ~dclListener => ~dclListener'
          /\ (dclListener /\ ~dclListener')
                => /\ hasRunInitialCleanup'
                   /\ hasRunInitialCleanup => NothingScanned
                   /\ ~hasRunInitialCleanup
                         => (lastRoot' = Node(Document)
                               /\ \A e \in Elems : hasIn[e] => bound'[e])]_vars

\* the handler is gone, a scan of the document has run, and an element carries
\* a marker that no scan has met
C24_Witness ==
    /\ ~dclListener /\ hasRunInitialCleanup
    /\ lastRoot = Node(Document)
    /\ \E e \in Elems : hasIn[e] /\ ~bound[e] /\ ~seenMarked[e]

\* C25: every 'astro:page-load', whatever has happened before, scans the whole
\* document: every element that carries the marker and is not bound is bound
\* afterwards.
C25_PageLoadScans ==
    [][(hasRunInitialCleanup' /\ nEvents' = nEvents /\ AstroPageLoad) =>
          /\ lastRoot' = Node(Document)
          /\ \A e \in Elems : (hasIn[e] /\ ~bound[e]) => (bound'[e] /\ seenMarked'[e])]_vars

\* while the DOMContentLoaded handler is still waiting, an 'astro:page-load' has
\* scanned the document and a root is bound with live trackers
C25_Witness ==
    /\ dclListener /\ hasRunInitialCleanup
    /\ lastRoot = Node(Document)
    /\ \E e \in Elems : bound[e] /\ seenMarked[e] /\ Live(e) # {}

\* C26: a step that finalizes a root removes its marker and leaves it bound,
\* clears no bound flag, changes no 'xyz-nested' class, and changes the marker
\* of no element that is not finalized in that step.
C26_FinalizerOnlyRemovesMarker ==
    [][\A r \in Elems :
          finalized'[r] # finalized[r] =>
              /\ ~hasIn'[r] /\ bound'[r]
              /\ nestedCls' = nestedCls
              /\ \A e \in Elems :
                    /\ bound[e] => bound'[e]
                    /\ hasIn'[e] # hasIn[e] => finalized'[e] # finalized[e]]_vars

\* a root is finalized and still bound; its nested participant, a root itself,
\* still carries both classes
C26_Witness ==
    \E r \in Elems : \E e \in Tracked(r) \ {r} :
        /\ finalized[r] = 1 /\ bound[r] /\ ~hasIn[r]
        /\ nestedCls[e] /\ hasIn[e] /\ bound[e]

\* the positions of the name list that count: a name that is neither empty nor
\* 'none', and a duration greater than 0 (0 where the duration list is shorter)
Counted(cs) ==
    {i \in 1..Len(cs.names) :
        Trim(cs.names[i]) \notin {<<>>, None} /\ MsAt(cs.durations, i) > 0}

\* duration + delay at the counted positions
Ends(cs) == {MsAt(cs.durations, i) + MsAt(cs.delays, i) : i \in Counted(cs)}

\* the largest number of a non-empty set
Largest(S) == CHOOSE m \in S : \A x \in S : x <= m

\* C27 as claimed: expectedCount is the number of counted entries and maxMs the
\* maximum of duration + delay over them, 0 when there are none.
C27_MetaIsCountAndMax ==
    \A e \in Elems :
        getAnimMeta(style[e]) =
            [expectedCount |-> Cardinality(Counted(style[e])),
             maxMs |-> IF Ends(style[e]) = {} THEN 0 ELSE Largest(Ends(style[e]))]

\* C27 amended: expectedCount is the number of counted entries and maxMs the
\* maximum of 0 and of duration + delay over them; what the closure of a bound
\* root keeps for its tracked root element is that pair.
C27_MetaIsCountAndClampedMax ==
    \A e \in Elems :
        /\ getAnimMeta(style[e]) =
              [expectedCount |-> Cardinality(Counted(style[e])),
               maxMs |-> Largest(Ends(style[e]) \cup {0})]
        /\ e \in Tracked(e) =>
              perElMeta[e][e] =
                  [expectedCount |-> Cardinality(Counted(style[e])),
                   maxMs |-> Largest(Ends(style[e]) \cup {0})]

\* a bound root with two names and one delay, one entry ending before it starts
\* and the other counted with the missing delay as 0
C27_Witness ==
    \E e \in Elems :
        /\ e \in Tracked(e)
        /\ Len(style[e].names) = 2 /\ Len(style[e].delays) = 1
        /\ Cardinality(Counted(style[e])) = 2
        /\ \E x \in Ends(style[e]) : x < 0
        /\ perElMeta[e][e].maxMs > 0

\* C28: no step clears a bound flag, and in every state a bindCleanup call on a
\* bound element changes nothing, with or without the marker on it.
C28_BoundForGood ==
    /\ [](\A e \in Elems : bound[e] => bindCleanup(World, e) = World)
    /\ [][\A e \in Elems : bound[e] => bound'[e]]_vars

\* a finalized root carries the marker again, a later scan has met it, and it
\* has no tracker
C28_Witness ==
    \E e \in Elems :
        /\ bound[e] /\ finalized[e] = 1
        /\ hasIn[e] /\ seenMarked[e]
        /\ Live(e) = {} /\ \A h \in pending : h.root # e

\* C29: in every state the remaining-count of a root is the number of entries
\* of its timers Map, and a root that has been finalized has no live timeout.
C29_RemainingIsTimersSize ==
    \A r \in Elems :
        /\ remaining[r] = Cardinality(DOMAIN timers[r])
        /\ finalized[r] >= 1 => \A h \in pending : h.root # r

\* a root that had trackers is finalized while another root still counts one
\* participant
C29_Witness ==
    \E r \in Elems : \E q \in Elems :
        /\ finalized[r] = 1 /\ Tracked(r) # {} /\ remaining[r] = 0
        /\ remaining[q] = 1 /\ Cardinality(Live(q)) = 1

\* the milliseconds the table gives for the token t
TableMs(t) == (CHOOSE x \in TokenTable : x.token = t).ms

\* C30: toMs of every duration and delay token of every element is what the
\* table gives: the number before 'ms', the number times 1000 otherwise, 0 for
\* an empty or unparsable token; and the maxMs kept for a tracked root with one
\* animation is the sum of the two table values.
C30_ToMs ==
    \A e \in Elems :
        /\ \A i \in 1..Len(style[e].durations) :
              toMs(style[e].durations[i]) = TableMs(style[e].durations[i])
        /\ \A i \in 1..Len(style[e].delays) :
              toMs(style[e].delays[i]) = TableMs(style[e].delays[i])
        /\ e \in Tracked(e) =>
              perElMeta[e][e].maxMs
                  = TableMs(style[e].durations[1]) + TableMs(style[e].delays[1])

\* a root is tracked for 50ms: its duration is ' 50ms ' and its delay 'abc'
C30_Witness ==
    \E e \in Elems :
        /\ e \in Tracked(e)
        /\ style[e].durations = << <<" ", "5", "0", "m", "s", " ">> >>
        /\ style[e].delays = << <<"a", "b", "c">> >>
        /\ perElMeta[e][e].maxMs = 50

====
